---- MODULE Spec2Model ----
(***************************************************************************)
(* A model of the resource discovery post-processing hooks of the OCI      *)
(* Terraform provider (oci/export_resource_helpers.go) and of the paginated *)
(* list of the tag-namespace data source.                                   *)
(*                                                                          *)
(* Resources live in an arena (res) and are named by their position in it, *)
(* which stands for the *OCIResource pointers of the Go code: a hook gets a *)
(* list of positions and changes the resources in place.                    *)
(***************************************************************************)
EXTENDS Integers, Sequences, FiniteSets, TLC

VARIABLES
    res,            \* the arena of OCIResource values
    referenceMap,   \* the global referenceMap: identifier -> HCL expression
    vars,           \* the global vars: variable name -> default value
    call,           \* the last hook call: its function, list, results and error
    builder,        \* the strings.Builder the HCL is written to
    pg,             \* the paginated list in progress (findIdentityTags, Get)
    drv,            \* the export's walk of the resource graph
    cloud           \* what the load balancer service holds

vars_all == <<res, referenceMap, vars, call, builder, pg, drv, cloud>>

(***************************************************************************)
(* Bounds of the model.                                                     *)
(***************************************************************************)
MaxResources == 2      \* the resources of one type that are discovered
MaxPages == 3          \* the pages of one list

(***************************************************************************)
(* Dynamically typed attribute values (Go's interface{}).                   *)
(***************************************************************************)
Str(s) == [t |-> "string", v |-> s]
IntV(n) == [t |-> "int", n |-> n]
ListV(l) == [t |-> "list", l |-> l]
MapV(m) == [t |-> "map", m |-> m]
InterpolationString(s) == [t |-> "interp", v |-> s]

IsStr(x) == x.t = "string"
IsList(x) == x.t = "list"
IsMap(x) == x.t = "map"

EmptyMap == [k \in {} |-> Str("")]

Has(m, k) == k \in DOMAIN m
Range(q) == {q[k] : k \in DOMAIN q}
Put(m, k, x) == [j \in DOMAIN m \cup {k} |-> IF j = k THEN x ELSE m[j]]
Delete(m, k) == [j \in DOMAIN m \ {k} |-> m[j]]

\* v, ok := m[k].(string)
StrOk(m, k) == Has(m, k) /\ IsStr(m[k])

Digits == <<"1", "2", "3", "4", "5", "6", "7", "8", "9">>
\* fmt.Sprintf("%v", n) for the small naturals of the model
Itoa(n) == IF n = 0 THEN "0" ELSE Digits[n]

(***************************************************************************)
(* OCIResource and the helpers of the export framework.                     *)
(***************************************************************************)
OCIResource(id, compartmentId, class, name, parent, attrs) ==
    [id |-> id, compartmentId |-> compartmentId, terraformClass |-> class,
     terraformName |-> name, terraformReferenceIdString |-> "", importId |-> "",
     omitFromExport |-> FALSE, parent |-> parent, sourceAttributes |-> attrs]

getTerraformReference(r) == r.terraformClass \o "." \o r.terraformName

getDoubleExpHclString(ref, attr) == ref \o "." \o attr
getVarHclString(name) == "var." \o name
getDataSourceHclString(ref, attr) == "data." \o ref \o "." \o attr

\* The state a hook works on, and what a hook returns with it.
St(r, m, v) == [res |-> r, referenceMap |-> m, vars |-> v]
Ret(st, results, err) ==
    [res |-> st.res, referenceMap |-> st.referenceMap, vars |-> st.vars,
     results |-> results, err |-> err]

SetAttr(st, i, k, x) ==
    [st EXCEPT !.res[i].sourceAttributes = Put(st.res[i].sourceAttributes, k, x)]
SetRef(st, k, e) == [st EXCEPT !.referenceMap = Put(st.referenceMap, k, e)]
SetVar(st, k, e) == [st EXCEPT !.vars = Put(st.vars, k, e)]

(***************************************************************************)
(* strconv.ParseInt(s, 10, 64) on the strings of the model: an optional    *)
(* sign and then one or more decimal digits, anything else is an error.    *)
(* (The sizes of the model are far from the 64-bit range.)                 *)
(***************************************************************************)
RECURSIVE ParseDigits(_, _, _)
ParseDigits(s, i, acc) ==
    LET digits == <<"0", "1", "2", "3", "4", "5", "6", "7", "8", "9">>
        c == SubSeq(s, i, i)
    IN  IF i > Len(s) THEN [ok |-> TRUE, n |-> acc]
        ELSE IF ~(\E d \in 1..10 : digits[d] = c) THEN [ok |-> FALSE, n |-> 0]
        ELSE ParseDigits(s, i + 1, acc * 10 + (CHOOSE d \in 1..10 : digits[d] = c) - 1)

ParseInt(s) ==
    IF Len(s) = 0 THEN [ok |-> FALSE, n |-> 0]
    ELSE LET sign == SubSeq(s, 1, 1)
             from == IF sign \in {"+", "-"} THEN 2 ELSE 1
             p == ParseDigits(s, from, 0)
         IN  IF from > Len(s) THEN [ok |-> FALSE, n |-> 0]
             ELSE IF sign = "-" THEN [ok |-> p.ok, n |-> 0 - p.n] ELSE p

(***************************************************************************)
(* processInstances                                                         *)
(***************************************************************************)
\* Mutant: the tag is looked for among the instance's attributes instead of
\* in its freeform_tags.
hasInstancePoolTagAttribute(inst) ==
    Has(inst.sourceAttributes, "oci:compute:instancepool")

\* lines 133-139: the instance was launched by an instance pool
hasInstancePoolTag(inst) ==
    /\ Has(inst.sourceAttributes, "freeform_tags")
    /\ IsMap(inst.sourceAttributes["freeform_tags"])
    /\ Has(inst.sourceAttributes["freeform_tags"].m, "oci:compute:instancepool")

\* lines 142-146
registerBootVolume(st, i) ==
    LET inst == st.res[i] IN
    IF StrOk(inst.sourceAttributes, "boot_volume_id")
    THEN SetRef(st, inst.sourceAttributes["boot_volume_id"].v,
                getDoubleExpHclString(getTerraformReference(inst), "boot_volume_id"))
    ELSE st

\* lines 148-150: source_details is a non-empty list whose first entry is a map
hasSourceDetails(inst) ==
    /\ Has(inst.sourceAttributes, "source_details")
    /\ IsList(inst.sourceAttributes["source_details"])
    /\ Len(inst.sourceAttributes["source_details"].l) > 0
    /\ IsMap(inst.sourceAttributes["source_details"].l[1])

sourceDetailsOf(inst) == inst.sourceAttributes["source_details"].l[1].m

\* sourceDetails[k] = x (the map is shared with the instance's attributes)
SetSourceDetail(st, i, k, x) ==
    [st EXCEPT !.res[i].sourceAttributes["source_details"].l[1].m =
                   Put(sourceDetailsOf(st.res[i]), k, x)]
DeleteSourceDetail(st, i, k) ==
    [st EXCEPT !.res[i].sourceAttributes["source_details"].l[1].m =
                   Delete(sourceDetailsOf(st.res[i]), k)]

\* Mutant: the variable's default is the image id without the quotes.
registerImageUnquoted(st, i) ==
    LET inst == st.res[i] IN
    IF StrOk(inst.sourceAttributes, "image")
    THEN LET imageId == inst.sourceAttributes["image"].v
             imageVarName == inst.terraformName \o "_source_image_id"
         IN  SetRef(SetVar(SetSourceDetail(st, i, "source_id", Str(imageId)),
                           imageVarName, imageId),
                    imageId, getVarHclString(imageVarName))
    ELSE st

\* lines 151-158
registerImage(st, i) ==
    LET inst == st.res[i] IN
    IF StrOk(inst.sourceAttributes, "image")
    THEN LET imageId == inst.sourceAttributes["image"].v
             imageVarName == inst.terraformName \o "_source_image_id"
         IN  SetRef(SetVar(SetSourceDetail(st, i, "source_id", Str(imageId)),
                           imageVarName, "\"" \o imageId \o "\""),
                    imageId, getVarHclString(imageVarName))
    ELSE st

MinBootVolumeSize == 50

\* Mutant: a size of exactly MinBootVolumeSize is removed as well.
fixBootVolumeSizeInclusive(st, i) ==
    LET sd == sourceDetailsOf(st.res[i]) IN
    IF ~Has(sd, "boot_volume_size_in_gbs") THEN [st |-> st, err |-> "nil"]
    ELSE IF ~IsStr(sd["boot_volume_size_in_gbs"]) THEN [st |-> st, err |-> "panic"]
    ELSE LET p == ParseInt(sd["boot_volume_size_in_gbs"].v) IN
         IF ~p.ok THEN [st |-> st, err |-> "error"]
         ELSE IF p.n <= MinBootVolumeSize
              THEN [st |-> DeleteSourceDetail(st, i, "boot_volume_size_in_gbs"),
                    err |-> "nil"]
              ELSE [st |-> st, err |-> "nil"]

\* lines 162-171: "nil" and the new state, or the error, or the panic of the
\* unchecked bootVolumeSizeInGbs.(string)
fixBootVolumeSize(st, i) ==
    LET sd == sourceDetailsOf(st.res[i]) IN
    IF ~Has(sd, "boot_volume_size_in_gbs") THEN [st |-> st, err |-> "nil"]
    ELSE IF ~IsStr(sd["boot_volume_size_in_gbs"]) THEN [st |-> st, err |-> "panic"]
    ELSE LET p == ParseInt(sd["boot_volume_size_in_gbs"].v) IN
         IF ~p.ok THEN [st |-> st, err |-> "error"]
         ELSE IF p.n < MinBootVolumeSize
              THEN [st |-> DeleteSourceDetail(st, i, "boot_volume_size_in_gbs"),
                    err |-> "nil"]
              ELSE [st |-> st, err |-> "nil"]

RECURSIVE processInstancesLoop(_, _, _, _)
processInstancesLoop(st, resources, k, results) ==
    IF k > Len(resources) THEN Ret(st, results, "nil")
    ELSE LET i == resources[k] IN
         IF hasInstancePoolTag(st.res[i])
         THEN processInstancesLoop(st, resources, k + 1, results)
         ELSE LET st1 == registerBootVolume(st, i) IN
              IF ~hasSourceDetails(st1.res[i])
              THEN processInstancesLoop(st1, resources, k + 1, Append(results, i))
              ELSE LET st2 == registerImage(st1, i)
                       f == fixBootVolumeSize(st2, i)
                   IN  IF f.err = "error" THEN Ret(f.st, resources, "error")
                       ELSE IF f.err = "panic" THEN Ret(f.st, <<>>, "panic")
                       ELSE processInstancesLoop(f.st, resources, k + 1,
                                                 Append(results, i))

processInstances(st, resources) == processInstancesLoop(st, resources, 1, <<>>)

(***************************************************************************)
(* for _, x := range resources { ... } of a hook that returns its list:    *)
(* f[k] is the state after the k-th iteration, with "nil", or with "error" *)
(* for a return with an error, or with "panic"; s is the state before the  *)
(* iteration and i the resource it is on.                                   *)
(***************************************************************************)
Continue(st) == [st |-> st, err |-> "nil"]
Fail(st, err) == [st |-> st, err |-> err]

\* what the hook returns when its loop ended with r
Return(r, resources) == Ret(r.st, IF r.err = "panic" THEN <<>> ELSE resources, r.err)

(***************************************************************************)
(* processAvailabilityDomains, processObjectStorageNamespace                *)
(***************************************************************************)
\* Mutant: the index is the zero-based position in the list.
processAvailabilityDomainsZeroBased(st, resources) ==
    LET f[k \in 0..Len(resources)] ==
            IF k = 0 THEN Continue(st)
            ELSE IF f[k - 1].err # "nil" THEN f[k - 1]
            ELSE LET s == f[k - 1].st
                     i == resources[k]
                 IN
                    LET st1 == SetAttr(s, i, "index", IntV(k - 1))
                        ad == st1.res[i]
                    IN  IF ~StrOk(ad.sourceAttributes, "name") \/ ad.sourceAttributes["name"].v = ""
                        THEN Fail(st1, "error")
                        ELSE Continue(SetRef(st1, ad.sourceAttributes["name"].v,
                                 getDataSourceHclString(getTerraformReference(ad), "name")))
    IN  Return(f[Len(resources)], resources)

processAvailabilityDomains(st, resources) ==
    LET f[k \in 0..Len(resources)] ==
            IF k = 0 THEN Continue(st)
            ELSE IF f[k - 1].err # "nil" THEN f[k - 1]
            ELSE LET s == f[k - 1].st
                     i == resources[k]
                 IN
                    LET st1 == SetAttr(s, i, "index", IntV(k))   \* idx + 1, idx from 0
                        ad == st1.res[i]
                    IN  IF ~StrOk(ad.sourceAttributes, "name") \/ ad.sourceAttributes["name"].v = ""
                        THEN Fail(st1, "error")
                        ELSE Continue(SetRef(st1, ad.sourceAttributes["name"].v,
                                 getDataSourceHclString(getTerraformReference(ad), "name")))
    IN  Return(f[Len(resources)], resources)

processObjectStorageNamespace(st, resources) ==
    LET f[k \in 0..Len(resources)] ==
            IF k = 0 THEN Continue(st)
            ELSE IF f[k - 1].err # "nil" THEN f[k - 1]
            ELSE LET s == f[k - 1].st
                     i == resources[k]
                 IN
                    LET ns == s.res[i] IN
                    IF ~StrOk(ns.sourceAttributes, "namespace") \/ ns.sourceAttributes["namespace"].v = ""
                    THEN Fail(s, "error")
                    ELSE Continue(SetRef(s, ns.sourceAttributes["namespace"].v,
                             getDataSourceHclString(getTerraformReference(ns), "namespace")))
    IN  Return(f[Len(resources)], resources)

(***************************************************************************)
(* processVolumeGroups.  sourceDetailsRaw.([]interface{})[0].(map...) is   *)
(* unchecked: it panics on a value that is no list, on an empty list and   *)
(* on a first entry that is no map.                                         *)
(***************************************************************************)
processVolumeGroups(st, resources) ==
    LET f[k \in 0..Len(resources)] ==
            IF k = 0 THEN Continue(st)
            ELSE IF f[k - 1].err # "nil" THEN f[k - 1]
            ELSE LET s == f[k - 1].st
                     i == resources[k]
                 IN
                    LET a == s.res[i].sourceAttributes IN
                    IF ~Has(a, "volume_ids") THEN Continue(s)
                    ELSE IF ~(IsList(a["volume_ids"]) /\ Len(a["volume_ids"].l) > 0) THEN Continue(s)
                    ELSE IF ~Has(a, "source_details") THEN Continue(s)
                    ELSE IF ~IsList(a["source_details"]) THEN Fail(s, "panic")
                    ELSE IF Len(a["source_details"].l) = 0 THEN Fail(s, "panic")
                    ELSE IF ~IsMap(a["source_details"].l[1]) THEN Fail(s, "panic")
                    ELSE Continue(SetSourceDetail(s, i, "volume_ids", a["volume_ids"]))
    IN  Return(f[Len(resources)], resources)

(***************************************************************************)
(* The composite ids of the load balancer's parts.                          *)
(***************************************************************************)
getBackendSetCompositeId(backendSetName, loadBalancerId) ==
    "loadBalancers/" \o loadBalancerId \o "/backendSets/" \o backendSetName
getBackendCompositeId(backendName, backendSetName, loadBalancerId) ==
    "loadBalancers/" \o loadBalancerId \o "/backendSets/" \o backendSetName
        \o "/backends/" \o backendName
getHostnameCompositeId(loadBalancerId, name) ==
    "loadBalancers/" \o loadBalancerId \o "/hostnames/" \o name
getPathRouteSetCompositeId(loadBalancerId, name) ==
    "loadBalancers/" \o loadBalancerId \o "/pathRouteSets/" \o name
getRuleSetCompositeId(loadBalancerId, name) ==
    "loadBalancers/" \o loadBalancerId \o "/ruleSets/" \o name
getCertificateCompositeId(certificateName, loadBalancerId) ==
    "loadBalancers/" \o loadBalancerId \o "/certificates/" \o certificateName
getListenerCompositeId(listenerName, loadBalancerId) ==
    "loadBalancers/" \o loadBalancerId \o "/listeners/" \o listenerName

SetId(st, i, id) == [st EXCEPT !.res[i].id = id]
ParentOf(st, i) == st.res[st.res[i].parent]

(***************************************************************************)
(* processLoadBalancerBackendSets, Hostnames, PathRouteSets, RuleSets,     *)
(* Certificates: the composite id of the part and its load_balancer_id.    *)
(* The name is read with an unchecked .(string), which panics.              *)
(***************************************************************************)
\* Mutant: the composite id is built from the backend set's current id
\* instead of its name.
processLoadBalancerBackendSetsFromId(st, resources) ==
    LET f[k \in 0..Len(resources)] ==
            IF k = 0 THEN Continue(st)
            ELSE IF f[k - 1].err # "nil" THEN f[k - 1]
            ELSE LET s == f[k - 1].st
                     i == resources[k]
                 IN
                    LET backendSet == s.res[i] IN
                    IF ~StrOk(backendSet.sourceAttributes, "name") THEN Fail(s, "panic")
                    ELSE Continue(SetAttr(SetId(s, i, getBackendSetCompositeId(
                                                          backendSet.id, ParentOf(s, i).id)),
                                          i, "load_balancer_id", Str(ParentOf(s, i).id)))
    IN  Return(f[Len(resources)], resources)

\* Mutant: the backend set gets its composite id but no load_balancer_id.
processLoadBalancerBackendSetsNoLoadBalancerId(st, resources) ==
    LET f[k \in 0..Len(resources)] ==
            IF k = 0 THEN Continue(st)
            ELSE IF f[k - 1].err # "nil" THEN f[k - 1]
            ELSE LET s == f[k - 1].st
                     i == resources[k]
                 IN
                    LET backendSet == s.res[i] IN
                    IF ~StrOk(backendSet.sourceAttributes, "name") THEN Fail(s, "panic")
                    ELSE Continue(SetId(s, i, getBackendSetCompositeId(
                                                  backendSet.sourceAttributes["name"].v,
                                                  ParentOf(s, i).id)))
    IN  Return(f[Len(resources)], resources)

processLoadBalancerBackendSets(st, resources) ==
    LET f[k \in 0..Len(resources)] ==
            IF k = 0 THEN Continue(st)
            ELSE IF f[k - 1].err # "nil" THEN f[k - 1]
            ELSE LET s == f[k - 1].st
                     i == resources[k]
                 IN
                    LET backendSet == s.res[i] IN
                    IF ~StrOk(backendSet.sourceAttributes, "name") THEN Fail(s, "panic")
                    ELSE Continue(SetAttr(SetId(s, i, getBackendSetCompositeId(
                                                          backendSet.sourceAttributes["name"].v,
                                                          ParentOf(s, i).id)),
                                          i, "load_balancer_id", Str(ParentOf(s, i).id)))
    IN  Return(f[Len(resources)], resources)

\* Mutant: the arguments of getHostnameCompositeId in the order of
\* getBackendSetCompositeId (name, load balancer id).
processLoadBalancerHostnamesSwapped(st, resources) ==
    LET f[k \in 0..Len(resources)] ==
            IF k = 0 THEN Continue(st)
            ELSE IF f[k - 1].err # "nil" THEN f[k - 1]
            ELSE LET s == f[k - 1].st
                     i == resources[k]
                 IN
                    LET hostname == s.res[i] IN
                    IF ~StrOk(hostname.sourceAttributes, "name") THEN Fail(s, "panic")
                    ELSE Continue(SetAttr(SetId(s, i, getHostnameCompositeId(
                                                          hostname.sourceAttributes["name"].v,
                                                          ParentOf(s, i).id)),
                                          i, "load_balancer_id", Str(ParentOf(s, i).id)))
    IN  Return(f[Len(resources)], resources)

processLoadBalancerHostnames(st, resources) ==
    LET f[k \in 0..Len(resources)] ==
            IF k = 0 THEN Continue(st)
            ELSE IF f[k - 1].err # "nil" THEN f[k - 1]
            ELSE LET s == f[k - 1].st
                     i == resources[k]
                 IN
                    LET hostname == s.res[i] IN
                    IF ~StrOk(hostname.sourceAttributes, "name") THEN Fail(s, "panic")
                    ELSE Continue(SetAttr(SetId(s, i, getHostnameCompositeId(
                                                          ParentOf(s, i).id,
                                                          hostname.sourceAttributes["name"].v)),
                                          i, "load_balancer_id", Str(ParentOf(s, i).id)))
    IN  Return(f[Len(resources)], resources)

processLoadBalancerPathRouteSets(st, resources) ==
    LET f[k \in 0..Len(resources)] ==
            IF k = 0 THEN Continue(st)
            ELSE IF f[k - 1].err # "nil" THEN f[k - 1]
            ELSE LET s == f[k - 1].st
                     i == resources[k]
                 IN
                    LET pathRouteSet == s.res[i] IN
                    IF ~StrOk(pathRouteSet.sourceAttributes, "name") THEN Fail(s, "panic")
                    ELSE Continue(SetAttr(SetId(s, i, getPathRouteSetCompositeId(
                                                          ParentOf(s, i).id,
                                                          pathRouteSet.sourceAttributes["name"].v)),
                                          i, "load_balancer_id", Str(ParentOf(s, i).id)))
    IN  Return(f[Len(resources)], resources)

processLoadBalancerRuleSets(st, resources) ==
    LET f[k \in 0..Len(resources)] ==
            IF k = 0 THEN Continue(st)
            ELSE IF f[k - 1].err # "nil" THEN f[k - 1]
            ELSE LET s == f[k - 1].st
                     i == resources[k]
                 IN
                    LET ruleSet == s.res[i] IN
                    IF ~StrOk(ruleSet.sourceAttributes, "name") THEN Fail(s, "panic")
                    ELSE Continue(SetAttr(SetId(s, i, getRuleSetCompositeId(
                                                          ParentOf(s, i).id,
                                                          ruleSet.sourceAttributes["name"].v)),
                                          i, "load_balancer_id", Str(ParentOf(s, i).id)))
    IN  Return(f[Len(resources)], resources)

processLoadBalancerCertificates(st, resources) ==
    LET f[k \in 0..Len(resources)] ==
            IF k = 0 THEN Continue(st)
            ELSE IF f[k - 1].err # "nil" THEN f[k - 1]
            ELSE LET s == f[k - 1].st
                     i == resources[k]
                 IN
                    LET certificate == s.res[i] IN
                    IF ~StrOk(certificate.sourceAttributes, "certificate_name") THEN Fail(s, "panic")
                    ELSE Continue(SetAttr(SetId(s, i, getCertificateCompositeId(
                                                          certificate.sourceAttributes["certificate_name"].v,
                                                          ParentOf(s, i).id)),
                                          i, "load_balancer_id", Str(ParentOf(s, i).id)))
    IN  Return(f[Len(resources)], resources)

(***************************************************************************)
(* processLoadBalancerBackends                                              *)
(***************************************************************************)
\* lines 346-351: the reference to the parent, or its name if it is omitted
parentNameReference(parent) ==
    IF ~parent.omitFromExport
    THEN InterpolationString(getDoubleExpHclString(getTerraformReference(parent), "name"))
    ELSE Str(parent.sourceAttributes["name"].v)

processLoadBalancerBackends(st, resources) ==
    LET f[k \in 0..Len(resources)] ==
            IF k = 0 THEN Continue(st)
            ELSE IF f[k - 1].err # "nil" THEN f[k - 1]
            ELSE LET s == f[k - 1].st
                     i == resources[k]
                 IN
                    LET backend == s.res[i]
                        parent == ParentOf(s, i)
                    IN  IF ~(/\ StrOk(backend.sourceAttributes, "name")
                             /\ StrOk(parent.sourceAttributes, "name")
                             /\ StrOk(parent.sourceAttributes, "load_balancer_id"))
                        THEN Fail(s, "panic")
                        ELSE LET st1 == SetId(s, i, getBackendCompositeId(
                                                        backend.sourceAttributes["name"].v,
                                                        parent.sourceAttributes["name"].v,
                                                        parent.sourceAttributes["load_balancer_id"].v))
                                 st2 == SetAttr(st1, i, "load_balancer_id",
                                                Str(parent.sourceAttributes["load_balancer_id"].v))
                             IN  Continue(SetAttr(st2, i, "backendset_name",
                                                  parentNameReference(parent)))
    IN  Return(f[Len(resources)], resources)

(***************************************************************************)
(* processDefaultSecurityLists, processDefaultRouteTables,                  *)
(* processDefaultDhcpOptions                                                *)
(***************************************************************************)
\* The three hooks are the same loop over their own attribute and class.
\* The parent's default id is read with an unchecked .(string).
processDefault(st, resources, defaultIdAttr, defaultClass) ==
    LET f[k \in 0..Len(resources)] ==
            IF k = 0 THEN Continue(st)
            ELSE IF f[k - 1].err # "nil" THEN f[k - 1]
            ELSE LET s == f[k - 1].st
                     i == resources[k]
                 IN
                    LET resource == s.res[i]
                        parent == ParentOf(s, i)
                    IN  IF ~StrOk(parent.sourceAttributes, defaultIdAttr) THEN Fail(s, "panic")
                        ELSE IF resource.id # parent.sourceAttributes[defaultIdAttr].v THEN Continue(s)
                        ELSE LET st1 == SetAttr(s, i, "manage_default_resource_id", Str(resource.id))
                                 st2 == [st1 EXCEPT !.res[i].terraformClass = defaultClass]
                             IN  IF ~parent.omitFromExport
                                 THEN Continue([st2 EXCEPT !.res[i].terraformReferenceIdString =
                                                   getTerraformReference(parent) \o "." \o defaultIdAttr])
                                 ELSE Continue(st2)
    IN  Return(f[Len(resources)], resources)

\* Mutant: the base class is written where the default class belongs.
processDefaultSecurityListsBaseClass(st, resources) ==
    processDefault(st, resources, "default_security_list_id", "oci_core_security_list")

processDefaultSecurityLists(st, resources) ==
    processDefault(st, resources, "default_security_list_id",
                   "oci_core_default_security_list")

processDefaultRouteTables(st, resources) ==
    processDefault(st, resources, "default_route_table_id", "oci_core_default_route_table")

processDefaultDhcpOptions(st, resources) ==
    processDefault(st, resources, "default_dhcp_options_id", "oci_core_default_dhcp_options")

(***************************************************************************)
(* processContainerengineNodePool                                           *)
(***************************************************************************)
processContainerengineNodePool(st, resources) ==
    LET f[k \in 0..Len(resources)] ==
            IF k = 0 THEN Continue(st)
            ELSE IF f[k - 1].err # "nil" THEN f[k - 1]
            ELSE LET s == f[k - 1].st
                     i == resources[k]
                 IN
                    IF Has(s.res[i].sourceAttributes, "node_config_details")
                    THEN Continue([s EXCEPT !.res[i].sourceAttributes =
                                      Delete(Delete(@, "subnet_ids"), "quantity_per_subnet")])
                    ELSE Continue(s)
    IN  Return(f[Len(resources)], resources)

(***************************************************************************)
(* filterSourcedBootVolumes, filterCustomImages, filterPrimaryDbHomes       *)
(***************************************************************************)
\* Mutant: an empty source_details list counts as source details.
filterSourcedBootVolumesAnyList(st, resources) ==
    Ret(st, SelectSeq(resources, LAMBDA i :
                LET a == st.res[i].sourceAttributes IN
                /\ Has(a, "source_details")
                /\ IsList(a["source_details"])), "nil")

\* Mutant: an empty compartment_id counts as a compartment.
filterCustomImagesAnyString(st, resources) ==
    Ret(st, SelectSeq(resources, LAMBDA i :
                LET a == st.res[i].sourceAttributes IN
                /\ Has(a, "compartment_id")
                /\ IsStr(a["compartment_id"])), "nil")

\* the boot volumes that have source details
filterSourcedBootVolumes(st, resources) ==
    Ret(st, SelectSeq(resources, LAMBDA i :
                LET a == st.res[i].sourceAttributes IN
                /\ Has(a, "source_details")
                /\ IsList(a["source_details"])
                /\ Len(a["source_details"].l) # 0), "nil")

\* the images that have a compartment
filterCustomImages(st, resources) ==
    Ret(st, SelectSeq(resources, LAMBDA i :
                LET a == st.res[i].sourceAttributes IN
                /\ Has(a, "compartment_id")
                /\ IsStr(a["compartment_id"])
                /\ Len(a["compartment_id"].v) # 0), "nil")

\* lines 541-546 for one DB home: "keep", "drop", or the panic of the
\* unchecked primaryDbHomeId.(string)
primaryDbHomeCheck(resource, parent) ==
    LET a == parent.sourceAttributes IN
    IF ~(Has(a, "db_home") /\ IsList(a["db_home"]) /\ Len(a["db_home"].l) > 0) THEN "drop"
    ELSE IF ~IsMap(a["db_home"].l[1]) THEN "drop"
    ELSE IF ~Has(a["db_home"].l[1].m, "id") THEN "drop"
    ELSE IF ~IsStr(a["db_home"].l[1].m["id"]) THEN "panic"
    ELSE IF a["db_home"].l[1].m["id"].v # resource.id THEN "keep" ELSE "drop"

filterPrimaryDbHomes(st, resources) ==
    IF \E k \in DOMAIN resources :
           primaryDbHomeCheck(st.res[resources[k]], ParentOf(st, resources[k])) = "panic"
    THEN Ret(st, <<>>, "panic")
    ELSE Ret(st, SelectSeq(resources, LAMBDA i :
                     primaryDbHomeCheck(st.res[i], ParentOf(st, i)) = "keep"), "nil")

(***************************************************************************)
(* processNetworkSecurityGroupRules, processIdentityAuthenticationPolicies, *)
(* processTagDefinitions                                                    *)
(***************************************************************************)
processNetworkSecurityGroupRules(st, resources) ==
    LET f[k \in 0..Len(resources)] ==
            IF k = 0 THEN Continue(st)
            ELSE IF f[k - 1].err # "nil" THEN f[k - 1]
            ELSE LET s == f[k - 1].st
                     i == resources[k]
                 IN
                    Continue(SetAttr(s, i, "network_security_group_id", Str(ParentOf(s, i).id)))
    IN  Return(f[Len(resources)], resources)

(***************************************************************************)
(* getObjectStorageBucketId: the getIdFn of buckets.  Both attributes are   *)
(* read with a checked .(string); the strings are not tested for emptiness. *)
(***************************************************************************)
getBucketCompositeId(name, namespace) ==
    "n/" \o namespace \o "/b/" \o name

getObjectStorageBucketId(resource) ==
    LET a == resource.sourceAttributes IN
    IF ~(Has(a, "name") /\ IsStr(a["name"])) THEN [id |-> "", err |-> "error"]
    ELSE IF ~(Has(a, "namespace") /\ IsStr(a["namespace"])) THEN [id |-> "", err |-> "error"]
    ELSE [id |-> getBucketCompositeId(a["name"].v, a["namespace"].v), err |-> "nil"]

getAuthenticationPolicyCompositeId(compartmentId) ==
    "authenticationPolicies/" \o compartmentId

processIdentityAuthenticationPolicies(st, resources) ==
    LET f[k \in 0..Len(resources)] ==
            IF k = 0 THEN Continue(st)
            ELSE IF f[k - 1].err # "nil" THEN f[k - 1]
            ELSE LET s == f[k - 1].st
                     i == resources[k]
                 IN
                    LET importId == getAuthenticationPolicyCompositeId(s.res[i].compartmentId) IN
                    Continue([s EXCEPT !.res[i].importId = importId, !.res[i].id = importId])
    IN  Return(f[Len(resources)], resources)

\* resource.sourceAttributes["name"].(string) is unchecked
processTagDefinitions(st, resources) ==
    LET f[k \in 0..Len(resources)] ==
            IF k = 0 THEN Continue(st)
            ELSE IF f[k - 1].err # "nil" THEN f[k - 1]
            ELSE LET s == f[k - 1].st
                     i == resources[k]
                 IN
                    LET st1 == SetAttr(s, i, "tag_namespace_id", Str(ParentOf(s, i).id)) IN
                    IF ~StrOk(st1.res[i].sourceAttributes, "name") THEN Fail(st1, "panic")
                    ELSE Continue([st1 EXCEPT !.res[i].importId =
                                      "tagNamespaces/" \o ParentOf(s, i).id \o "/tags/"
                                          \o st1.res[i].sourceAttributes["name"].v])
    IN  Return(f[Len(resources)], resources)

(***************************************************************************)
(* getAvailabilityDomainHCLDatasource, getObjectStorageNamespaceHCLDatasource*)
(* The builder is the sequence of the strings written to it.  varMap[k] of *)
(* a key that is not in the map is Go's zero value, the empty string.       *)
(***************************************************************************)
MapGet(varMap, k) == IF Has(varMap, k) THEN varMap[k] ELSE ""

dataBlockHeader(r) == "data " \o r.terraformClass \o " " \o r.terraformName \o " {\n"
compartmentLine(r, varMap) ==
    "compartment_id = " \o MapGet(varMap, r.compartmentId) \o "\n"
adNumberLine(r) == "ad_number = \"" \o Itoa(r.sourceAttributes["index"].n) \o "\"\n"

\* The builder after the call and the error returned.
getAvailabilityDomainHCLDatasource(b, ociRes, varMap) ==
    LET b2 == b \o <<dataBlockHeader(ociRes), compartmentLine(ociRes, varMap)>> IN
    IF ~Has(ociRes.sourceAttributes, "index")
    THEN [builder |-> b2, err |-> "error"]
    ELSE IF ociRes.sourceAttributes["index"].t # "int"
    THEN [builder |-> b2, err |-> "panic"]
    ELSE [builder |-> b2 \o <<adNumberLine(ociRes), "}\n">>, err |-> "nil"]

getObjectStorageNamespaceHCLDatasource(b, ociRes, varMap) ==
    [builder |-> b \o <<dataBlockHeader(ociRes), compartmentLine(ociRes, varMap), "}\n">>,
     err |-> "nil"]

(***************************************************************************)
(* The resources the hooks are run on.                                      *)
(***************************************************************************)
Absent == <<>>
\* the attribute k with the value chosen, or no attribute for Absent
Opt(k, choice) == IF choice = Absent THEN EmptyMap ELSE (k :> choice[1])


CompartmentId == "ocid1.compartment.c1"
Compartment == OCIResource(CompartmentId, CompartmentId, "oci_identity_compartment", "export", 0, EmptyMap)

PlainSourceDetails == ListV(<<MapV("source_type" :> Str("image"))>>)
SizedSourceDetails(size) ==
    ListV(<<MapV(("source_type" :> Str("image")) @@ ("boot_volume_size_in_gbs" :> size))>>)

\* The attributes of a discovered instance.
InstanceInputs ==
    {EmptyMap,
     "boot_volume_id" :> Str("ocid1.bootvolume.b1"),
     "image" :> Str("ocid1.image.i1"),
     ("image" :> Str("ocid1.image.i1")) @@ ("source_details" :> ListV(<<>>)),
     ("image" :> Str("ocid1.image.i1")) @@ ("source_details" :> PlainSourceDetails),
     "source_details" :> PlainSourceDetails}
    \cup {("freeform_tags" :> tags) @@ ("boot_volume_id" :> Str("ocid1.bootvolume.b1"))
            @@ ("image" :> Str("ocid1.image.i1")) @@ ("source_details" :> PlainSourceDetails) :
        tags \in {MapV(EmptyMap), MapV("oci:compute:instancepool" :> Str("pool1"))}}
    \cup {("image" :> Str("ocid1.image.i1")) @@ ("source_details" :> SizedSourceDetails(size)) :
        size \in {Str("49"), Str("50"), Str("5x"), IntV(49)}}

\* A resource discovered under the resource at position parent.
ChildId(n) == "ocid1.child.n" \o Itoa(n)
Child(class, n, parent, attrs) ==
    OCIResource(ChildId(n), CompartmentId, class, "export_child_" \o Itoa(n), parent, attrs)

NoCall == [fn |-> "none", list |-> <<>>, results |-> <<>>, err |-> "nil", again |-> FALSE]
NoPageToken == "<nil>"
NoPage == [pc |-> "idle", page |-> NoPageToken, items |-> <<>>, sent |-> <<>>, got |-> <<>>]
NoDrv == [todo |-> <<>>, stage |-> "idle", list |-> <<>>, discovered |-> <<>>]
NoCloud == [backendSets |-> <<>>, backends |-> <<>>, listeners |-> EmptyMap]

\* A compartment with its instances.
InitInstances ==
    /\ \E attrs \in [1..MaxResources -> InstanceInputs] :
          res = <<Compartment>> \o [n \in 1..MaxResources |-> Child("oci_core_instance", n, 1, attrs[n])]
    /\ referenceMap = EmptyMap

\* A compartment with its availability domains and its object storage
\* namespace; the compartment id is registered in the reference map or not.
InitDatasources ==
    /\ \E names \in [1..MaxResources -> {Absent, <<Str("")>>, <<Str("AD-1")>>, <<Str("AD-2")>>}],
          ns \in {Absent, <<Str("")>>, <<Str("AD-1")>>, <<Str("ns1")>>} :
          res = <<Compartment>>
                \o [n \in 1..MaxResources |->
                       Child("oci_identity_availability_domain", n, 1, Opt("name", names[n]))]
                \o <<Child("oci_objectstorage_namespace", 1, 1, Opt("namespace", ns))>>
    /\ referenceMap \in {EmptyMap, CompartmentId :> "var.compartment_ocid"}

\* A compartment with its volume groups.
VolumeGroupInputs ==
    {Opt("volume_ids", ids) @@ Opt("source_details", sd) :
        ids \in {Absent, <<ListV(<<>>)>>, <<ListV(<<Str("ocid1.volume.v1"), Str("ocid1.volume.v2")>>)>>},
        sd \in {Absent, <<ListV(<<>>)>>,
                <<ListV(<<MapV(("type" :> Str("volumeIds"))
                               @@ ("volume_ids" :> ListV(<<Str("ocid1.volume.v1")>>)))>>)>>}}

InitVolumeGroups ==
    /\ \E attrs \in [1..MaxResources -> VolumeGroupInputs] :
          res = <<Compartment>> \o [n \in 1..MaxResources |-> Child("oci_core_volume_group", n, 1, attrs[n])]
    /\ referenceMap = EmptyMap

\* A load balancer with its parts of one type, as the data source lists them:
\* each with its name (certificate_name for a certificate), or without.
LoadBalancerId == "ocid1.loadbalancer.l1"
LoadBalancer ==
    OCIResource(LoadBalancerId, CompartmentId, "oci_load_balancer_load_balancer", "export_lb", 1,
                "display_name" :> Str("lb"))

PartClasses == {"oci_load_balancer_backend_set", "oci_load_balancer_hostname", "oci_load_balancer_path_route_set", "oci_load_balancer_rule_set",
                "oci_load_balancer_certificate"}
NameAttrOf(class) == IF class = "oci_load_balancer_certificate" THEN "certificate_name" ELSE "name"
PartNameInputs == {Absent, <<Str("a1")>>, <<Str("a2")>>}

Part(class, n, parent, attrs) ==
    OCIResource("", CompartmentId, class, "export_part_" \o Itoa(n), parent, attrs)

InitLoadBalancerParts ==
    /\ \E class \in PartClasses, names \in [1..MaxResources -> PartNameInputs] :
          res = <<Compartment, LoadBalancer>>
                \o [n \in 1..MaxResources |->
                       Part(class, n, 2, Opt(NameAttrOf(class), names[n]))]
    /\ referenceMap = EmptyMap

\* A load balancer, one backend set and its backends.
InitBackends ==
    /\ \E bsName \in {Absent, <<Str("bs1")>>}, omit \in BOOLEAN,
          names \in [1..MaxResources -> PartNameInputs] :
          res = <<Compartment, LoadBalancer,
                  [Part("oci_load_balancer_backend_set", 0, 2, Opt("name", bsName))
                       EXCEPT !.omitFromExport = omit]>>
                \o [n \in 1..MaxResources |-> Part("oci_load_balancer_backend", n, 3, Opt("name", names[n]))]
    /\ referenceMap = EmptyMap

\* A VCN with its security lists, its route tables or its DHCP options; the
\* VCN names one of them as its default, or another id, or none.
DefaultableClasses == {"oci_core_security_list", "oci_core_route_table", "oci_core_dhcp_options"}
DefaultIdAttrOf(class) ==
    CASE class = "oci_core_security_list" -> "default_security_list_id"
      [] class = "oci_core_route_table" -> "default_route_table_id"
      [] class = "oci_core_dhcp_options" -> "default_dhcp_options_id"
DefaultClassOf(class) ==
    CASE class = "oci_core_security_list" -> "oci_core_default_security_list"
      [] class = "oci_core_route_table" -> "oci_core_default_route_table"
      [] class = "oci_core_dhcp_options" -> "oci_core_default_dhcp_options"

Vcn(attrs, omit) ==
    [OCIResource("ocid1.vcn.v1", CompartmentId, "oci_core_vcn", "export_vcn", 1, attrs)
        EXCEPT !.omitFromExport = omit]

InitDefaults ==
    /\ \E class \in DefaultableClasses, omit \in BOOLEAN,
          def \in {Absent, <<Str("ocid1.child.other")>>}
                  \cup {<<Str(ChildId(n))>> : n \in 1..MaxResources} :
          res = <<Compartment, Vcn(Opt(DefaultIdAttrOf(class), def), omit)>>
                \o [n \in 1..MaxResources |->
                       Child(class, n, 2, "display_name" :> Str("child"))]
    /\ referenceMap = EmptyMap

\* A compartment with its node pools, boot volumes or images.
NilV == [t |-> "nil"]

OtherInputs ==
    [class : {"oci_containerengine_node_pool"},
     attrs : {Opt("node_config_details", d) @@ Opt("subnet_ids", s) @@ Opt("quantity_per_subnet", q) :
                 d \in {Absent, <<MapV(EmptyMap)>>}, s \in {Absent, <<ListV(<<>>)>>},
                 q \in {Absent, <<IntV(1)>>}}]
    \cup [class : {"oci_core_boot_volume"},
          attrs : {Opt("source_details", sd) :
                      sd \in {Absent, <<Str("none")>>, <<ListV(<<>>)>>, <<PlainSourceDetails>>}}]
    \cup [class : {"oci_core_image"},
          attrs : {Opt("compartment_id", c) :
                      c \in {Absent, <<NilV>>, <<Str("")>>, <<Str(CompartmentId)>>}}]
    \cup [class : {"oci_identity_authentication_policy"}, attrs : {EmptyMap}]
    \cup [class : {"oci_objectstorage_bucket"},
          attrs : {Opt("name", nm) @@ Opt("namespace", ns) :
                      nm \in {Absent, <<Str("")>>, <<Str("b1")>>},
                      ns \in {Absent, <<Str("")>>, <<Str("ns1")>>}}]

InitOthers ==
    /\ \E in \in [1..MaxResources -> OtherInputs] :
          /\ \A n \in 1..MaxResources : in[n].class = in[1].class
          /\ res = <<Compartment>>
                   \o [n \in 1..MaxResources |-> Child(in[n].class, n, 1, in[n].attrs)]
    /\ referenceMap = EmptyMap

\* A DB system with its DB homes, a network security group with its rules, a
\* tag namespace with its tags.
ParentInputs ==
    [class : {"oci_database_db_system"}, child : {"oci_database_db_home"},
     attrs : {Opt("db_home", h) :
                 h \in {Absent, <<ListV(<<>>)>>, <<ListV(<<MapV(EmptyMap)>>)>>,
                        <<ListV(<<MapV("id" :> IntV(1))>>)>>,
                        <<ListV(<<MapV("id" :> Str("ocid1.child.other"))>>)>>}
                       \cup {<<ListV(<<MapV("id" :> Str(ChildId(n)))>>)>> : n \in 1..MaxResources}},
     childAttrs : {"display_name" :> Str("child")}]
    \cup [class : {"oci_core_network_security_group"}, child : {"oci_core_network_security_group_security_rule"},
          attrs : {EmptyMap}, childAttrs : {"direction" :> Str("INGRESS")}]
    \cup [class : {"oci_identity_tag_namespace"}, child : {"oci_identity_tag"},
          attrs : {"name" :> Str("ns1")},
          childAttrs : {Opt("name", nm) : nm \in {Absent, <<Str("env")>>}}]

InitChildren ==
    /\ \E in \in ParentInputs :
          res = <<Compartment,
                  OCIResource("ocid1.parent.p1", CompartmentId, in.class, "export_parent", 1,
                              in.attrs)>>
                \o [n \in 1..MaxResources |->
                       Child(in.child, n, 2, in.childAttrs)]
    /\ referenceMap = EmptyMap

Init ==
    /\ \/ InitInstances
       \/ InitDatasources
       \/ InitVolumeGroups
       \/ InitLoadBalancerParts
       \/ InitBackends
       \/ InitDefaults
       \/ InitOthers
       \/ InitChildren
    /\ vars = EmptyMap
    /\ call = NoCall
    /\ builder = <<>>
    /\ pg = NoPage
    /\ drv = NoDrv
    /\ cloud = NoCloud

(***************************************************************************)
(* The calls of the hooks.  A hook is called with a list of resources of   *)
(* its type: any of them, in the order of their discovery.                  *)
(***************************************************************************)
OfClass(classes) == {i \in DOMAIN res : res[i].terraformClass \in classes}

RECURSIVE SortedSeq(_)
SortedSeq(S) ==
    IF S = {} THEN <<>>
    ELSE LET m == CHOOSE x \in S : \A y \in S : x <= y
         IN  <<m>> \o SortedSeq(S \ {m})

ListsOf(classes) == {SortedSeq(S) : S \in SUBSET OfClass(classes)}

Running == call.err # "panic"

\* The call of hook fn on list L, which returned r.  The call record notes
\* whether the hook was run again on what its last call returned.
Called(fn, L, r) ==
    /\ res' = r.res
    /\ referenceMap' = r.referenceMap
    /\ vars' = r.vars
    /\ call' = [fn |-> fn, list |-> L, results |-> r.results, err |-> r.err,
               again |-> (call.fn = fn /\ call.err = "nil" /\ call.results = L)]
    /\ UNCHANGED <<builder, pg, drv, cloud>>

CanProcess(classes) == Running /\ builder = <<>> /\ OfClass(classes) # {}

Now == St(res, referenceMap, vars)

ProcessInstances ==
    /\ CanProcess({"oci_core_instance"})
    /\ \E L \in ListsOf({"oci_core_instance"}) :
          Called("processInstances", L, processInstances(Now, L))

ProcessAvailabilityDomains ==
    /\ CanProcess({"oci_identity_availability_domain"})
    /\ \E L \in ListsOf({"oci_identity_availability_domain"}) :
          Called("processAvailabilityDomains", L, processAvailabilityDomains(Now, L))

ProcessObjectStorageNamespace ==
    /\ CanProcess({"oci_objectstorage_namespace"})
    /\ \E L \in ListsOf({"oci_objectstorage_namespace"}) :
          Called("processObjectStorageNamespace", L, processObjectStorageNamespace(Now, L))

ProcessVolumeGroups ==
    /\ CanProcess({"oci_core_volume_group"})
    /\ \E L \in ListsOf({"oci_core_volume_group"}) :
          Called("processVolumeGroups", L, processVolumeGroups(Now, L))

ProcessLoadBalancerBackendSets ==
    /\ CanProcess({"oci_load_balancer_backend_set"})
    /\ \E L \in ListsOf({"oci_load_balancer_backend_set"}) :
          Called("processLoadBalancerBackendSets", L, processLoadBalancerBackendSets(Now, L))

ProcessLoadBalancerBackends ==
    /\ CanProcess({"oci_load_balancer_backend"})
    /\ \E L \in ListsOf({"oci_load_balancer_backend"}) :
          Called("processLoadBalancerBackends", L, processLoadBalancerBackends(Now, L))

ProcessLoadBalancerHostnames ==
    /\ CanProcess({"oci_load_balancer_hostname"})
    /\ \E L \in ListsOf({"oci_load_balancer_hostname"}) :
          Called("processLoadBalancerHostnames", L, processLoadBalancerHostnames(Now, L))

ProcessLoadBalancerPathRouteSets ==
    /\ CanProcess({"oci_load_balancer_path_route_set"})
    /\ \E L \in ListsOf({"oci_load_balancer_path_route_set"}) :
          Called("processLoadBalancerPathRouteSets", L, processLoadBalancerPathRouteSets(Now, L))

ProcessLoadBalancerRuleSets ==
    /\ CanProcess({"oci_load_balancer_rule_set"})
    /\ \E L \in ListsOf({"oci_load_balancer_rule_set"}) :
          Called("processLoadBalancerRuleSets", L, processLoadBalancerRuleSets(Now, L))

ProcessLoadBalancerCertificates ==
    /\ CanProcess({"oci_load_balancer_certificate"})
    /\ \E L \in ListsOf({"oci_load_balancer_certificate"}) :
          Called("processLoadBalancerCertificates", L, processLoadBalancerCertificates(Now, L))

\* A reclassified resource stays in the list of its type.
ProcessDefaultSecurityLists ==
    /\ CanProcess({"oci_core_security_list", DefaultClassOf("oci_core_security_list")})
    /\ \E L \in ListsOf({"oci_core_security_list", DefaultClassOf("oci_core_security_list")}) :
          Called("processDefaultSecurityLists", L, processDefaultSecurityLists(Now, L))

ProcessDefaultRouteTables ==
    /\ CanProcess({"oci_core_route_table", DefaultClassOf("oci_core_route_table")})
    /\ \E L \in ListsOf({"oci_core_route_table", DefaultClassOf("oci_core_route_table")}) :
          Called("processDefaultRouteTables", L, processDefaultRouteTables(Now, L))

ProcessDefaultDhcpOptions ==
    /\ CanProcess({"oci_core_dhcp_options", DefaultClassOf("oci_core_dhcp_options")})
    /\ \E L \in ListsOf({"oci_core_dhcp_options", DefaultClassOf("oci_core_dhcp_options")}) :
          Called("processDefaultDhcpOptions", L, processDefaultDhcpOptions(Now, L))

ProcessContainerengineNodePool ==
    /\ CanProcess({"oci_containerengine_node_pool"})
    /\ \E L \in ListsOf({"oci_containerengine_node_pool"}) :
          Called("processContainerengineNodePool", L, processContainerengineNodePool(Now, L))

FilterSourcedBootVolumes ==
    /\ CanProcess({"oci_core_boot_volume"})
    /\ \E L \in ListsOf({"oci_core_boot_volume"}) :
          Called("filterSourcedBootVolumes", L, filterSourcedBootVolumes(Now, L))

FilterCustomImages ==
    /\ CanProcess({"oci_core_image"})
    /\ \E L \in ListsOf({"oci_core_image"}) :
          Called("filterCustomImages", L, filterCustomImages(Now, L))

FilterPrimaryDbHomes ==
    /\ CanProcess({"oci_database_db_home"})
    /\ \E L \in ListsOf({"oci_database_db_home"}) :
          Called("filterPrimaryDbHomes", L, filterPrimaryDbHomes(Now, L))

ProcessNetworkSecurityGroupRules ==
    /\ CanProcess({"oci_core_network_security_group_security_rule"})
    /\ \E L \in ListsOf({"oci_core_network_security_group_security_rule"}) :
          Called("processNetworkSecurityGroupRules", L, processNetworkSecurityGroupRules(Now, L))

ProcessIdentityAuthenticationPolicies ==
    /\ CanProcess({"oci_identity_authentication_policy"})
    /\ \E L \in ListsOf({"oci_identity_authentication_policy"}) :
          Called("processIdentityAuthenticationPolicies", L, processIdentityAuthenticationPolicies(Now, L))

ProcessTagDefinitions ==
    /\ CanProcess({"oci_identity_tag"})
    /\ \E L \in ListsOf({"oci_identity_tag"}) :
          Called("processTagDefinitions", L, processTagDefinitions(Now, L))

\* A discovered resource that has children is marked omitted from the export;
\* this can happen at any point before rendering starts.
MarkOmitted ==
    /\ Running /\ builder = <<>>
    /\ \E i \in DOMAIN res :
          /\ res[i].parent # 0 /\ ~res[i].omitFromExport
          /\ \E j \in DOMAIN res : res[j].parent = i
          /\ res' = [res EXCEPT ![i].omitFromExport = TRUE]
          /\ call' = [fn |-> "markOmitted", list |-> <<i>>, results |-> <<>>,
                     err |-> "nil", again |-> FALSE]
          /\ UNCHANGED <<referenceMap, vars, builder, pg, drv, cloud>>

\* the id that the getIdFn returns becomes the bucket's id; with an error the
\* bucket keeps the id it had
GetObjectStorageBucketId ==
    /\ Running /\ builder = <<>>
    /\ \E i \in OfClass({"oci_objectstorage_bucket"}) :
          LET r == getObjectStorageBucketId(res[i]) IN
          /\ res' = IF r.err = "nil" THEN [res EXCEPT ![i].id = r.id] ELSE res
          /\ call' = [fn |-> "getObjectStorageBucketId", list |-> <<i>>, results |-> <<>>,
                     err |-> r.err, again |-> FALSE]
          /\ UNCHANGED <<referenceMap, vars, builder, pg, drv, cloud>>

(***************************************************************************)
(* Rendering: resource.getHCLString(builder, referenceMap)                  *)
(***************************************************************************)
MaxBuilder == 3

Rendered(fn, i, r) ==
    /\ builder' = r.builder
    /\ call' = [fn |-> fn, list |-> <<i>>, results |-> <<>>, err |-> r.err, again |-> FALSE]
    /\ UNCHANGED <<res, referenceMap, vars, pg, drv, cloud>>

RenderAvailabilityDomain(i) ==
    /\ Running /\ Len(builder) < MaxBuilder
    /\ Rendered("getAvailabilityDomainHCLDatasource", i,
                getAvailabilityDomainHCLDatasource(builder, res[i], referenceMap))

RenderObjectStorageNamespace(i) ==
    /\ Running /\ Len(builder) < MaxBuilder
    /\ Rendered("getObjectStorageNamespaceHCLDatasource", i,
                getObjectStorageNamespaceHCLDatasource(builder, res[i], referenceMap))

Render ==
    \/ \E i \in OfClass({"oci_identity_availability_domain"}) : RenderAvailabilityDomain(i)
    \/ \E i \in OfClass({"oci_objectstorage_namespace"}) : RenderObjectStorageNamespace(i)

Next ==
    \/ ProcessInstances
    \/ ProcessAvailabilityDomains
    \/ ProcessObjectStorageNamespace
    \/ ProcessVolumeGroups
    \/ ProcessLoadBalancerBackendSets
    \/ ProcessLoadBalancerBackends
    \/ ProcessLoadBalancerHostnames
    \/ ProcessLoadBalancerPathRouteSets
    \/ ProcessLoadBalancerRuleSets
    \/ ProcessLoadBalancerCertificates
    \/ ProcessDefaultSecurityLists
    \/ ProcessDefaultRouteTables
    \/ ProcessDefaultDhcpOptions
    \/ ProcessContainerengineNodePool
    \/ FilterSourcedBootVolumes
    \/ FilterCustomImages
    \/ FilterPrimaryDbHomes
    \/ ProcessNetworkSecurityGroupRules
    \/ ProcessIdentityAuthenticationPolicies
    \/ ProcessTagDefinitions
    \/ GetObjectStorageBucketId
    \/ MarkOmitted
    \/ Render

Spec == Init /\ [][Next]_vars_all

(***************************************************************************)
(* The paginated lists: IdentityTagNamespacesDataSourceCrud.Get and the    *)
(* first half of findIdentityTags.  A list request is one step; the        *)
(* service answers it with a page of items that it has not returned yet    *)
(* and a next-page token or none, or with an error.                        *)
(***************************************************************************)
TagNamespaceNames == {"ns1", "ns2"}
TagNames == {"env", "team"}

\* the lists of at most two different elements of S
ShortSeqs(S) ==
    {<<>>} \cup {<<a>> : a \in S} \cup UNION {{<<a, b>> : b \in S \ {a}} : a \in S}

\* The answers of the service to the next request of the list p.
ListResponses(pool, p) ==
    {[ok |-> TRUE, items |-> it, next |-> nx] :
        it \in ShortSeqs(pool \ Range(p.items)),
        nx \in {NoPageToken}
               \cup (IF Len(p.got) + 1 < MaxPages THEN {"page" \o Itoa(Len(p.got) + 2)} ELSE {})}
    \cup {[ok |-> FALSE, items |-> <<>>, next |-> NoPageToken]}

\* Get, lines 67-83: the list after the answer r to the request that carried
\* token.  s.Res keeps the items of the pages fetched so far.
GetPage(p, token, r) ==
    IF ~r.ok THEN [p EXCEPT !.pc = "failed", !.sent = Append(p.sent, token)]
    ELSE [pc |-> IF r.next # NoPageToken THEN "loop" ELSE "items",
          page |-> r.next,
          items |-> p.items \o r.items,
          sent |-> Append(p.sent, token),
          got |-> Append(p.got, r)]

\* Mutant: the next page is requested once instead of while there is a token.
findIdentityTagsPageOnce(p, token, r) ==
    IF ~r.ok THEN [p EXCEPT !.pc = "failed", !.sent = Append(p.sent, token)]
    ELSE [pc |-> IF r.next # NoPageToken /\ p.got = <<>> THEN "loop" ELSE "items",
          page |-> r.next,
          items |-> p.items \o r.items,
          sent |-> Append(p.sent, token),
          got |-> Append(p.got, r)]

\* findIdentityTags, lines 419-434
findIdentityTagsPage(p, token, r) ==
    IF ~r.ok THEN [p EXCEPT !.pc = "failed", !.sent = Append(p.sent, token)]
    ELSE [pc |-> IF r.next # NoPageToken THEN "loop" ELSE "items",
          page |-> r.next,
          items |-> p.items \o r.items,
          sent |-> Append(p.sent, token),
          got |-> Append(p.got, r)]

\* findIdentityTags, lines 436-463: the resources of the tags named items
\* under the tag namespace parent (a position of arena r); the Read of item
\* failAt fails (0: none does).
tagResourceOf(r, parent, tagName) ==
    OCIResource("ocid1.tag." \o r[parent].sourceAttributes["name"].v \o "." \o tagName,
                r[parent].compartmentId, "oci_identity_tag",
                r[r[parent].parent].terraformName \o "_" \o tagName, parent,
                ("name" :> Str(tagName)) @@ ("description" :> Str("tag")))

findIdentityTagsItems(r, parent, items, failAt) ==
    LET n == IF failAt = 0 THEN Len(items) ELSE failAt - 1 IN
    [results |-> [k \in 1..n |-> tagResourceOf(r, parent, items[k])],
     err |-> IF failAt = 0 THEN "nil" ELSE "error"]

(***************************************************************************)
(* findLoadBalancerListeners                                                *)
(***************************************************************************)
\* The listeners of the load balancer whose default backend set is the
\* parent, in the order in which the range over the map visits them (order:
\* the names of the map in that order); GetLoadBalancer fails or not, and so
\* does the Read of matching listener failAt (0: none does).
listenerResourceOf(r, parent, listenerName) ==
    LET loadBalancerId == r[parent].sourceAttributes["load_balancer_id"].v IN
    OCIResource(getListenerCompositeId(listenerName, loadBalancerId),
                r[parent].compartmentId, "oci_load_balancer_listener",
                r[r[parent].parent].terraformName \o "_" \o listenerName, parent,
                ("name" :> Str(listenerName))
                @@ ("load_balancer_id" :> Str(loadBalancerId))
                @@ ("default_backend_set_name" :> parentNameReference(r[parent])))

findLoadBalancerListeners(r, parent, listeners, order, getFails, failAt) ==
    IF ~(/\ StrOk(r[parent].sourceAttributes, "load_balancer_id")
         /\ StrOk(r[parent].sourceAttributes, "name"))
    THEN [results |-> <<>>, err |-> "panic"]
    ELSE IF getFails THEN [results |-> <<>>, err |-> "error"]
    ELSE LET backendSetName == r[parent].sourceAttributes["name"].v
             matching == SelectSeq(order, LAMBDA l : listeners[l] = backendSetName)
             n == IF failAt = 0 \/ failAt > Len(matching) THEN Len(matching) ELSE failAt - 1
         IN  [results |-> [k \in 1..n |-> listenerResourceOf(r, parent, matching[k])],
              err |-> IF n = Len(matching) THEN "nil" ELSE "error"]

(***************************************************************************)
(* The export of a compartment: each type of resource is discovered under  *)
(* its parent, post-processed by its hook, and only then are the resources *)
(* added to the discovered ones and their children's types queued.         *)
(***************************************************************************)
Task(kind, parent) == [kind |-> kind, parent |-> parent]

ListenerNames == {"l1", "l2"}

InitExportTags ==
    /\ res = <<Compartment>>
    /\ drv = [todo |-> <<Task("tag_namespaces", 1)>>, stage |-> "idle", list |-> <<>>,
              discovered |-> <<1>>]
    /\ cloud = NoCloud

InitExportLoadBalancer ==
    /\ res = <<Compartment, LoadBalancer>>
    /\ drv = [todo |-> <<Task("backend_sets", 2)>>, stage |-> "idle", list |-> <<>>,
              discovered |-> <<1, 2>>]
    /\ \E nSets \in 0..MaxResources, nBackends \in 0..MaxResources,
          S \in SUBSET ListenerNames :
          \E listeners \in [S -> {"bs" \o Itoa(n) : n \in 1..MaxResources}] :
              cloud = [backendSets |-> [n \in 1..nSets |-> "bs" \o Itoa(n)],
                       backends |-> [n \in 1..nBackends |-> "be" \o Itoa(n)],
                       listeners |-> listeners]

InitExport ==
    /\ InitExportTags \/ InitExportLoadBalancer
    /\ referenceMap = EmptyMap
    /\ vars = EmptyMap
    /\ call = NoCall
    /\ builder = <<>>
    /\ pg = NoPage

AtTask(kind) == Running /\ drv.todo # <<>> /\ Head(drv.todo).kind = kind
Starting(kind) == AtTask(kind) /\ drv.stage = "idle" /\ pg.pc \in {"idle", "failed", "done"}
Parent == Head(drv.todo).parent

\* The discovery of the type failed: the export goes on with the next one.
Aborted == [drv EXCEPT !.todo = Tail(drv.todo), !.stage = "idle", !.list = <<>>]
\* The resources found wait for their post-processing.
Found(new) ==
    [drv EXCEPT !.stage = "discovered",
                !.list = [k \in 1..Len(new) |-> Len(res) + k]]

Returned(fn, list, results, err) ==
    [fn |-> fn, list |-> list, results |-> results, err |-> err, again |-> FALSE]

\* The first request of Get and its further ones.
GetRequest(token) ==
    \E r \in ListResponses(TagNamespaceNames, IF token = NoPageToken THEN NoPage ELSE pg) :
        /\ pg' = GetPage(IF token = NoPageToken THEN NoPage ELSE pg, token, r)
        /\ drv' = IF r.ok THEN drv ELSE Aborted
        /\ call' = IF r.ok THEN call ELSE Returned("Get", <<Parent>>, <<>>, "error")
        /\ UNCHANGED <<res, referenceMap, vars, builder, cloud>>

GetFirst == Starting("tag_namespaces") /\ GetRequest(NoPageToken)
GetNext == AtTask("tag_namespaces") /\ pg.pc = "loop" /\ GetRequest(pg.page)

\* ReadResource calls SetData once Get has returned without an error; the
\* items of s.Res become the tag namespaces discovered.
tagNamespaceOf(k, name, parent) ==
    OCIResource("ocid1.tagnamespace." \o name, CompartmentId, "oci_identity_tag_namespace",
                "export_tag_namespace_" \o Itoa(k), parent, "name" :> Str(name))

SetData ==
    /\ AtTask("tag_namespaces") /\ pg.pc = "items"
    /\ LET new == [k \in 1..Len(pg.items) |-> tagNamespaceOf(k, pg.items[k], Parent)] IN
          /\ res' = res \o new
          /\ drv' = Found(new)
    /\ pg' = [pg EXCEPT !.pc = "done"]
    /\ call' = Returned("Get", <<Parent>>, <<>>, "nil")
    /\ UNCHANGED <<referenceMap, vars, builder, cloud>>

FindIdentityTagsRequest(token) ==
    \E r \in ListResponses(TagNames, IF token = NoPageToken THEN NoPage ELSE pg) :
        /\ pg' = findIdentityTagsPage(IF token = NoPageToken THEN NoPage ELSE pg, token, r)
        /\ drv' = IF r.ok THEN drv ELSE Aborted
        /\ call' = IF r.ok THEN call
                   ELSE Returned("findIdentityTags", <<Parent>>, <<>>, "error")
        /\ UNCHANGED <<res, referenceMap, vars, builder, cloud>>

FindIdentityTagsFirst == Starting("tags") /\ FindIdentityTagsRequest(NoPageToken)
FindIdentityTagsNext == AtTask("tags") /\ pg.pc = "loop" /\ FindIdentityTagsRequest(pg.page)

FindIdentityTagsItems ==
    /\ AtTask("tags") /\ pg.pc = "items"
    /\ \E failAt \in 0..Len(pg.items) :
          LET f == findIdentityTagsItems(res, Parent, pg.items, failAt) IN
          /\ res' = res \o f.results
          /\ drv' = IF f.err = "nil" THEN Found(f.results) ELSE Aborted
          /\ call' = Returned("findIdentityTags", <<Parent>>,
                              [k \in 1..Len(f.results) |-> Len(res) + k], f.err)
    /\ pg' = [pg EXCEPT !.pc = "done"]
    /\ UNCHANGED <<referenceMap, vars, builder, cloud>>

\* The parts of a load balancer that a data source lists: the backend sets
\* of the load balancer and the backends of a backend set.
DataSourceFound(new) ==
    /\ res' = res \o new
    /\ drv' = Found(new)
    /\ UNCHANGED <<referenceMap, vars, call, builder, pg, cloud>>

DiscoverBackendSets ==
    /\ Starting("backend_sets")
    /\ DataSourceFound([k \in 1..Len(cloud.backendSets) |->
           OCIResource("", CompartmentId, "oci_load_balancer_backend_set", "export_backend_set_" \o Itoa(k),
                       Parent, "name" :> Str(cloud.backendSets[k]))])

DiscoverBackends ==
    /\ Starting("backends")
    /\ DataSourceFound([k \in 1..Len(cloud.backends) |->
           OCIResource("", CompartmentId, "oci_load_balancer_backend",
                       res[Parent].terraformName \o "_backend_" \o Itoa(k),
                       Parent, "name" :> Str(cloud.backends[k]))])

FindLoadBalancerListeners ==
    /\ Starting("listeners")
    /\ \E order \in ShortSeqs(DOMAIN cloud.listeners),
          getFails \in BOOLEAN, failAt \in 0..Cardinality(DOMAIN cloud.listeners) :
          /\ Len(order) = Cardinality(DOMAIN cloud.listeners)
          /\ LET f == findLoadBalancerListeners(res, Parent, cloud.listeners, order,
                                                getFails, failAt) IN
             /\ res' = res \o f.results
             /\ drv' = IF f.err = "nil" THEN Found(f.results) ELSE Aborted
             /\ call' = Returned("findLoadBalancerListeners", <<Parent>>,
                                 [k \in 1..Len(f.results) |-> Len(res) + k], f.err)
    /\ UNCHANGED <<referenceMap, vars, builder, pg, cloud>>

\* The post-processing of the resources found, by the hook of their type if
\* it has one; their children's types are queued after it.
ChildTasks(kinds, results) ==
    IF results = <<>> \/ kinds = <<>> THEN <<>>
    ELSE [k \in 1..(Len(results) * Len(kinds)) |->
             Task(kinds[((k - 1) % Len(kinds)) + 1], results[((k - 1) \div Len(kinds)) + 1])]

PostProcessed(fn, r, kinds) ==
    /\ res' = r.res
    /\ referenceMap' = r.referenceMap
    /\ vars' = r.vars
    /\ call' = Returned(fn, drv.list, r.results, r.err)
    /\ drv' = IF r.err = "nil"
              THEN [todo |-> Tail(drv.todo) \o ChildTasks(kinds, r.results),
                    stage |-> "idle", list |-> <<>>,
                    discovered |-> drv.discovered \o r.results]
              ELSE Aborted
    /\ UNCHANGED <<builder, pg, cloud>>

Discovered(kind) == AtTask(kind) /\ drv.stage = "discovered"

PostProcessTagNamespaces ==
    /\ Discovered("tag_namespaces")
    /\ PostProcessed("none", Ret(Now, drv.list, "nil"), <<"tags">>)

PostProcessTags ==
    /\ Discovered("tags")
    /\ PostProcessed("processTagDefinitions", processTagDefinitions(Now, drv.list), <<>>)

PostProcessBackendSets ==
    /\ Discovered("backend_sets")
    /\ PostProcessed("processLoadBalancerBackendSets",
                     processLoadBalancerBackendSets(Now, drv.list),
                     <<"backends", "listeners">>)

PostProcessBackends ==
    /\ Discovered("backends")
    /\ PostProcessed("processLoadBalancerBackends",
                     processLoadBalancerBackends(Now, drv.list), <<>>)

PostProcessListeners ==
    /\ Discovered("listeners")
    /\ PostProcessed("none", Ret(Now, drv.list, "nil"), <<>>)

NextExport ==
    \/ GetFirst
    \/ GetNext
    \/ SetData
    \/ FindIdentityTagsFirst
    \/ FindIdentityTagsNext
    \/ FindIdentityTagsItems
    \/ DiscoverBackendSets
    \/ DiscoverBackends
    \/ FindLoadBalancerListeners
    \/ PostProcessTagNamespaces
    \/ PostProcessTags
    \/ PostProcessBackendSets
    \/ PostProcessBackends
    \/ PostProcessListeners

SpecExport == InitExport /\ [][NextExport]_vars_all

(***************************************************************************)
(* The claims.                                                              *)
(***************************************************************************)
\* C1: once a key is in the Reference Map its value is never replaced by a
\* different expression (the first registration for a key wins), whatever
\* hooks run and on whatever lists.
C1_FirstRegistrationWins ==
    [][\A k \in DOMAIN referenceMap :
          k \in DOMAIN referenceMap' /\ referenceMap'[k] = referenceMap[k]]_vars_all

DefaultHooks ==
    {<<"processDefaultSecurityLists", "oci_core_security_list">>,
     <<"processDefaultRouteTables", "oci_core_route_table">>,
     <<"processDefaultDhcpOptions", "oci_core_dhcp_options">>}

\* C4: a successful run of processDefaultSecurityLists / RouteTables /
\* DhcpOptions reclassifies a resource if and only if its id is its parent's
\* default_*_id: such a resource gets the oci_core_default_* class (not the
\* base class) and manage_default_resource_id = its id; any other resource
\* keeps its class, attributes and reference string.
C4_DefaultReclassification ==
    [][\A h \in DefaultHooks :
          (call'.fn = h[1] /\ call'.err = "nil") =>
              \A i \in Range(call'.list) :
                  IF res[i].id = res[res[i].parent].sourceAttributes[DefaultIdAttrOf(h[2])].v
                  THEN /\ res'[i].terraformClass = DefaultClassOf(h[2])
                       /\ res'[i].terraformClass # h[2]
                       /\ Has(res'[i].sourceAttributes, "manage_default_resource_id")
                       /\ res'[i].sourceAttributes["manage_default_resource_id"] = Str(res'[i].id)
                       /\ res'[i].id = res[i].id
                  ELSE res'[i] = res[i]]_vars_all

\* C4's case: a run that reclassified one security list and left another.
C4_Witness ==
    /\ call.fn = "processDefaultSecurityLists" /\ call.err = "nil"
    /\ \E i, j \in Range(call.list) :
          /\ res[i].terraformClass = "oci_core_default_security_list"
          /\ res[i].sourceAttributes["manage_default_resource_id"] = Str(res[i].id)
          /\ res[j].terraformClass = "oci_core_security_list"
          /\ ~Has(res[j].sourceAttributes, "manage_default_resource_id")

\* C5: a hook that succeeded and is run again on the list it returned
\* succeeds again, returns the same list and changes no resource, no
\* Reference Map entry and no variable.
C5_Idempotent ==
    [][call'.again =>
          /\ call'.err = "nil"
          /\ call'.results = call'.list
          /\ res' = res
          /\ referenceMap' = referenceMap
          /\ vars' = vars]_vars_all

\* C5's case: the second run of processInstances on a list it had filtered
\* and whose instances it had rewritten.
C5_Witness ==
    /\ call.again /\ call.fn = "processInstances" /\ call.list # <<>>
    /\ \E i \in OfClass({"oci_core_instance"}) : i \notin Range(call.list)
    /\ DOMAIN vars # {} /\ DOMAIN referenceMap # {}

PartHooks ==
    {"processLoadBalancerBackendSets", "processLoadBalancerHostnames",
     "processLoadBalancerPathRouteSets", "processLoadBalancerRuleSets",
     "processLoadBalancerCertificates"}

\* The composite id the hook fn is to give the part named name of load
\* balancer lb.
CompositeIdOf(fn, name, lb) ==
    CASE fn = "processLoadBalancerBackendSets" -> getBackendSetCompositeId(name, lb)
      [] fn = "processLoadBalancerHostnames" -> getHostnameCompositeId(lb, name)
      [] fn = "processLoadBalancerPathRouteSets" -> getPathRouteSetCompositeId(lb, name)
      [] fn = "processLoadBalancerRuleSets" -> getRuleSetCompositeId(lb, name)
      [] fn = "processLoadBalancerCertificates" -> getCertificateCompositeId(name, lb)

PartName(r) == r.sourceAttributes[NameAttrOf(r.terraformClass)].v

\* C6: after the post-processing of backend sets, hostnames, path route sets,
\* rule sets and certificates every resource returned has the composite id of
\* (its name, its parent's id) and load_balancer_id = its parent's id; two
\* resources with the same parent id and name have the same id.
C6_CompositeIds ==
    (call.fn \in PartHooks /\ call.err = "nil") =>
        /\ \A i \in Range(call.results) :
              /\ res[i].id = CompositeIdOf(call.fn, PartName(res[i]), res[res[i].parent].id)
              /\ res[i].sourceAttributes["load_balancer_id"] = Str(res[res[i].parent].id)
        /\ \A i, j \in Range(call.results) :
              (PartName(res[i]) = PartName(res[j]) /\ res[res[i].parent].id = res[res[j].parent].id)
                  => res[i].id = res[j].id

\* C6's case: a processed list of two hostnames with different names.
C6_Witness ==
    /\ call.fn = "processLoadBalancerHostnames" /\ call.err = "nil"
    /\ \E i, j \in Range(call.results) :
          /\ PartName(res[i]) # PartName(res[j])
          /\ res[i].id = "loadBalancers/ocid1.loadbalancer.l1/hostnames/a1"
          /\ res[i].id # res[j].id

\* C7: every hook is total: it returns a list or an error and never crashes,
\* whatever attributes its resources have.
C7_HooksTotal == call.err # "panic"

\* C8: a failing getAvailabilityDomainHCLDatasource leaves the builder as it
\* was before the call: no part of the resource's block is written.
C8_NoPartialRender ==
    [][\A i \in DOMAIN res :
          (RenderAvailabilityDomain(i) /\ call'.err = "error") => builder' = builder]_vars_all

RenderFns == {"getAvailabilityDomainHCLDatasource", "getObjectStorageNamespaceHCLDatasource"}

\* C10: the compartment_id of a rendered availability-domain or namespace data
\* source is the expression registered for the compartment id or, if none is
\* registered, the literal compartment id: never an empty value.
C10_CompartmentIdRendered ==
    (call.fn \in RenderFns /\ call.err = "nil") =>
        LET cid == res[call.list[1]].compartmentId
            value == IF Has(referenceMap, cid) THEN referenceMap[cid] ELSE cid
        IN  /\ ("compartment_id = " \o value \o "\n") \in Range(builder)
            /\ "compartment_id = \n" \notin Range(builder)

\* the resources that the export has discovered so far
DiscoveredResources == Range(drv.discovered) \cup Range(drv.list)

\* C2: no two discovered resources share the same (terraformClass,
\* terraformName) pair, the tags of findIdentityTags and the listeners of
\* findLoadBalancerListeners included.
C2_UniqueNames ==
    \A i, j \in DiscoveredResources :
        i # j => <<res[i].terraformClass, res[i].terraformName>>
                     # <<res[j].terraformClass, res[j].terraformName>>

\* a backend set after processLoadBalancerBackendSets
BackendSetProcessed(bs) ==
    /\ StrOk(bs.sourceAttributes, "load_balancer_id")
    /\ bs.sourceAttributes["load_balancer_id"].v = res[bs.parent].id
    /\ bs.id = getBackendSetCompositeId(bs.sourceAttributes["name"].v, res[bs.parent].id)

\* C3: a parent's type is post-processed before its children are discovered
\* or post-processed: every resource found has a parent among the
\* post-processed resources, and a backend set whose backends or listeners
\* are about to be, or have been, discovered and processed carries its
\* load_balancer_id and its composite id.
C3_ParentsProcessedFirst ==
    /\ \A i \in DOMAIN res : res[i].parent # 0 => res[i].parent \in Range(drv.discovered)
    /\ \A k \in DOMAIN drv.todo :
          drv.todo[k].kind \in {"backends", "listeners"}
              => BackendSetProcessed(res[drv.todo[k].parent])
    /\ \A i \in DOMAIN res :
          res[i].terraformClass \in {"oci_load_balancer_backend", "oci_load_balancer_listener"}
              => BackendSetProcessed(res[res[i].parent])
    /\ call.fn \in {"processLoadBalancerBackends", "findLoadBalancerListeners"}
          => call.err # "panic"

\* C3's case: the backends and a listener of a processed backend set have
\* been discovered and the backends post-processed.
C3_Witness ==
    /\ call.fn = "processLoadBalancerBackends" /\ call.err = "nil" /\ call.list # <<>>
    /\ \E i \in Range(call.results) :
          res[i].id = "loadBalancers/ocid1.loadbalancer.l1/backendSets/bs2/backends/be1"
    /\ \E j \in Range(drv.discovered) : res[j].terraformClass = "oci_load_balancer_listener"

RECURSIVE ConcatItems(_)
ConcatItems(pages) ==
    IF pages = <<>> THEN <<>> ELSE Head(pages).items \o ConcatItems(Tail(pages))

\* no resource of the list that fn makes under parent exists
NothingHandedOn(fn, parent) ==
    \A i \in DOMAIN res :
        ~(/\ res[i].parent = parent
          /\ res[i].terraformClass = (IF fn = "Get" THEN "oci_identity_tag_namespace" ELSE "oci_identity_tag"))

\* C9: findIdentityTags and Get request page after page, each request with
\* the token of the last response, until a response has no token; only then
\* are the items made into resources, and the items are those of all pages
\* in page order.  If a page request fails, the error is returned and no item
\* of a page fetched before it is handed on as a resource.
C9_PaginationComplete ==
    /\ pg.pc \in {"items", "done"} =>
          /\ pg.got # <<>> /\ Len(pg.sent) = Len(pg.got)
          /\ pg.got[Len(pg.got)].next = NoPageToken
          /\ \A k \in 1..(Len(pg.got) - 1) : pg.got[k].next # NoPageToken
          /\ pg.sent[1] = NoPageToken
          /\ \A k \in 2..Len(pg.sent) : pg.sent[k] = pg.got[k - 1].next
          /\ pg.items = ConcatItems(pg.got)
    /\ pg.pc \in {"loop", "items"} =>
          /\ drv.stage = "idle" /\ drv.list = <<>>
          /\ NothingHandedOn(IF Head(drv.todo).kind = "tags" THEN "findIdentityTags" ELSE "Get",
                             Head(drv.todo).parent)
    /\ pg.pc = "failed" =>
          /\ call.fn \in {"Get", "findIdentityTags"}
          /\ call.err = "error" /\ call.results = <<>>
          /\ NothingHandedOn(call.fn, call.list[1])
    /\ (call.fn = "findIdentityTags" /\ call.err = "nil") =>
          /\ pg.pc = "done"
          /\ Len(call.results) = Len(pg.items)
          /\ \A k \in 1..Len(call.results) :
                res[call.results[k]].sourceAttributes["name"] = Str(pg.items[k])

\* C9's case: the tags of a namespace came in three pages and were made into
\* resources in page order.
C9_Witness ==
    /\ call.fn = "findIdentityTags" /\ call.err = "nil"
    /\ pg.pc = "done" /\ Len(pg.got) = 3
    /\ pg.got[1].items # <<>> /\ pg.got[3].items # <<>>
    /\ Len(call.results) = 2

\* the last resource of list L whose attribute attr is the string name
LastNamed(L, attr, name) ==
    L[CHOOSE k \in DOMAIN L :
          /\ res[L[k]].sourceAttributes[attr] = Str(name)
          /\ \A j \in DOMAIN L : j > k => res[L[j]].sourceAttributes[attr] # Str(name)]

\* C11: processAvailabilityDomains gives the availability domain at list
\* position k (from 1) the index k and registers its name as the data-source
\* expression on the name of the availability domain that has it (the last
\* one in the list, should two have the same name); a rendered availability
\* domain has the line ad_number = "<its index>" in its block.
C11_AdIndexAndNumber ==
    /\ (call.fn = "processAvailabilityDomains" /\ call.err = "nil") =>
          \A k \in DOMAIN call.list :
              LET ad == res[call.list[k]]
                  name == ad.sourceAttributes["name"].v
              IN  /\ ad.sourceAttributes["index"] = IntV(k)
                  /\ Has(referenceMap, name)
                  /\ referenceMap[name] =
                        "data.oci_identity_availability_domain."
                            \o res[LastNamed(call.list, "name", name)].terraformName \o ".name"
    /\ (call.fn = "getAvailabilityDomainHCLDatasource" /\ call.err = "nil") =>
          LET ad == res[call.list[1]]
              n == Len(builder)
          IN  /\ n >= 4
              /\ builder[n - 3] = "data oci_identity_availability_domain "
                                      \o ad.terraformName \o " {\n"
              /\ builder[n - 1] = "ad_number = \""
                                      \o Itoa(ad.sourceAttributes["index"].n) \o "\"\n"
              /\ builder[n] = "}\n"

\* C11's case: the second of two named availability domains was given index
\* 2 and rendered with ad_number = "2".
C11_Witness ==
    /\ call.fn = "getAvailabilityDomainHCLDatasource" /\ call.err = "nil"
    /\ res[call.list[1]].sourceAttributes["index"] = IntV(2)
    /\ "ad_number = \"2\"\n" \in Range(builder)
    /\ Has(referenceMap, "AD-2")

\* the instance has a freeform_tags map with the key oci:compute:instancepool
PoolTagged(r) ==
    /\ "freeform_tags" \in DOMAIN r.sourceAttributes
    /\ r.sourceAttributes["freeform_tags"].t = "map"
    /\ "oci:compute:instancepool" \in DOMAIN r.sourceAttributes["freeform_tags"].m

\* the expressions and the variable that processInstances makes for r
InstanceExpressions(r) ==
    {"oci_core_instance." \o r.terraformName \o ".boot_volume_id",
     "var." \o r.terraformName \o "_source_image_id"}

\* C12 (as stated): whatever list processInstances returns, no instance in it
\* has the instance pool tag.
C12_NoPoolInstanceReturned ==
    call.fn = "processInstances" => \A i \in Range(call.results) : ~PoolTagged(res[i])

\* C12 (amended): when processInstances succeeds its result is the input
\* without the instances that have the instance pool tag, in input order;
\* when it returns an error the list returned with it is the whole input; an
\* instance with the tag adds no Reference Map entry and no variable.
C12_PoolInstancesExcluded ==
    [][ProcessInstances =>
          /\ call'.err = "nil" =>
                call'.results = SelectSeq(call'.list, LAMBDA i : ~PoolTagged(res[i]))
          /\ call'.err = "error" => call'.results = call'.list
          /\ \A i \in Range(call'.list) : PoolTagged(res[i]) =>
                /\ res'[i] = res[i]
                /\ \A k \in DOMAIN referenceMap' :
                      referenceMap'[k] \in InstanceExpressions(res[i])
                          => k \in DOMAIN referenceMap /\ referenceMap[k] = referenceMap'[k]
                /\ (res[i].terraformName \o "_source_image_id") \in DOMAIN vars'
                      => (res[i].terraformName \o "_source_image_id") \in DOMAIN vars
       ]_vars_all

\* C12's case: of two instances processed one had the tag and was left out,
\* the other was kept and registered.
C12_Witness ==
    /\ call.fn = "processInstances" /\ call.err = "nil"
    /\ Len(call.list) = 2 /\ Len(call.results) = 1
    /\ PoolTagged(res[call.list[1]]) /\ call.results[1] = call.list[2]
    /\ DOMAIN referenceMap # {} /\ DOMAIN vars # {}

\* the resource's attribute exists and is a list with at least one entry
NonEmptyList(r, attr) ==
    /\ attr \in DOMAIN r.sourceAttributes
    /\ r.sourceAttributes[attr].t = "list"
    /\ r.sourceAttributes[attr].l # <<>>

\* the resource's attribute exists and is a string with at least one character
NonEmptyString(r, attr) ==
    /\ attr \in DOMAIN r.sourceAttributes
    /\ r.sourceAttributes[attr].t = "string"
    /\ r.sourceAttributes[attr].v # ""

\* C13: filterSourcedBootVolumes returns without error, in input order,
\* exactly the boot volumes whose source_details exists and is a non-empty
\* list, and modifies no resource, Reference Map entry or variable.
C13_SourcedBootVolumes ==
    [][FilterSourcedBootVolumes =>
          /\ call'.err = "nil"
          /\ call'.results = SelectSeq(call'.list,
                                 LAMBDA i : NonEmptyList(res[i], "source_details"))
          /\ UNCHANGED <<res, referenceMap, vars>>
       ]_vars_all

\* C13's case: of two boot volumes the first, whose source_details is
\* missing, not a list or empty, was left out and the second was kept.
C13_Witness ==
    /\ call.fn = "filterSourcedBootVolumes"
    /\ Len(call.list) = 2 /\ call.results = <<call.list[2]>>
    /\ "source_details" \in DOMAIN res[call.list[1]].sourceAttributes

\* C14: filterCustomImages returns without error, in input order, exactly the
\* images whose compartment_id exists and is a non-empty string, and
\* modifies no resource, Reference Map entry or variable.
C14_CustomImages ==
    [][FilterCustomImages =>
          /\ call'.err = "nil"
          /\ call'.results = SelectSeq(call'.list,
                                 LAMBDA i : NonEmptyString(res[i], "compartment_id"))
          /\ UNCHANGED <<res, referenceMap, vars>>
       ]_vars_all

\* C14's case: of two images the first, whose compartment_id is null or
\* empty, was left out and the second was kept.
C14_Witness ==
    /\ call.fn = "filterCustomImages"
    /\ Len(call.list) = 2 /\ call.results = <<call.list[2]>>
    /\ "compartment_id" \in DOMAIN res[call.list[1]].sourceAttributes

\* the resource's attribute is absent, not a string, or the empty string
Missing(r, attr) == ~NonEmptyString(r, attr)

\* C15, availability domains: the hook returns an error whenever an
\* availability domain of its list has no name, and an availability domain
\* without a name never has a Reference Map entry.
C15_AvailabilityDomains ==
    /\ call.fn = "processAvailabilityDomains" =>
          ((\E i \in Range(call.list) : Missing(res[i], "name")) => call.err = "error")
    /\ \A i \in DOMAIN res :
          (res[i].terraformClass = "oci_identity_availability_domain" /\ Missing(res[i], "name"))
              => \A k \in DOMAIN referenceMap :
                    referenceMap[k] # "data.oci_identity_availability_domain."
                                         \o res[i].terraformName \o ".name"

\* C15, namespace: the hook returns an error whenever a namespace of its list
\* has no namespace value, and such a namespace never has a Reference Map
\* entry.
C15_Namespace ==
    /\ call.fn = "processObjectStorageNamespace" =>
          ((\E i \in Range(call.list) : Missing(res[i], "namespace")) => call.err = "error")
    /\ \A i \in DOMAIN res :
          (res[i].terraformClass = "oci_objectstorage_namespace" /\ Missing(res[i], "namespace"))
              => \A k \in DOMAIN referenceMap :
                    referenceMap[k] # "data.oci_objectstorage_namespace."
                                         \o res[i].terraformName \o ".namespace"

\* C15, buckets: getObjectStorageBucketId returns an error whenever the
\* bucket's name or namespace is absent or empty, and a bucket without a name
\* or a namespace never gets a composite id.
C15_Bucket ==
    /\ call.fn = "getObjectStorageBucketId" =>
          ((Missing(res[call.list[1]], "name") \/ Missing(res[call.list[1]], "namespace"))
              => call.err = "error")
    /\ \A i \in DOMAIN res :
          (/\ res[i].terraformClass = "oci_objectstorage_bucket"
           /\ (Missing(res[i], "name") \/ Missing(res[i], "namespace")))
              => res[i].id = ChildId(i - 1)

\* C15: a missing required attribute is always a fatal error, and the
\* failing resource gets no Reference Map entry and no id.
C15_MissingAttributeFatal ==
    C15_AvailabilityDomains /\ C15_Namespace /\ C15_Bucket

\* the instance has a string image attribute and a non-empty source_details list
HasImageAndSourceDetails(r) ==
    /\ "image" \in DOMAIN r.sourceAttributes
    /\ r.sourceAttributes["image"].t = "string"
    /\ NonEmptyList(r, "source_details")

\* C16: after a successful processInstances, every instance of its result
\* that has a string image attribute and a non-empty source_details list has
\* the image id as source_details[0].source_id, the variable
\* <terraformName>_source_image_id is defined with the quoted image id, and
\* the Reference Map maps the image id to a reference to a variable whose
\* default is the quoted image id.
C16_ImageVariable ==
    (call.fn = "processInstances" /\ call.err = "nil") =>
        \A i \in Range(call.results) : HasImageAndSourceDetails(res[i]) =>
            LET imageId == res[i].sourceAttributes["image"].v
                first   == res[i].sourceAttributes["source_details"].l[1].m
                varName == res[i].terraformName \o "_source_image_id"
            IN  /\ "source_id" \in DOMAIN first
                /\ first["source_id"] = [t |-> "string", v |-> imageId]
                /\ varName \in DOMAIN vars
                /\ vars[varName] = "\"" \o imageId \o "\""
                /\ imageId \in DOMAIN referenceMap
                /\ \E v \in DOMAIN vars :
                      /\ referenceMap[imageId] = "var." \o v
                      /\ vars[v] = "\"" \o imageId \o "\""

\* C16's case: two instances with an image and source details were retained.
C16_Witness ==
    /\ call.fn = "processInstances" /\ call.err = "nil"
    /\ Len(call.results) = 2
    /\ \A i \in Range(call.results) : HasImageAndSourceDetails(res[i])
    /\ Cardinality(DOMAIN vars) = 2

\* resource i refers to its parent: a backend by its backendset_name, a
\* default security list, route table or DHCP options by its reference string
RefersToParent(i) ==
    LET r == res[i]
        parent == res[r.parent]
        ref == parent.terraformClass \o "." \o parent.terraformName
    IN  \/ /\ r.terraformClass = "oci_load_balancer_backend"
           /\ "backendset_name" \in DOMAIN r.sourceAttributes
           /\ r.sourceAttributes["backendset_name"] = InterpolationString(ref \o ".name")
        \/ /\ r.terraformClass \in {"oci_core_default_security_list",
                                     "oci_core_default_route_table",
                                     "oci_core_default_dhcp_options"}
           /\ r.terraformReferenceIdString \in
                 {ref \o ".default_security_list_id", ref \o ".default_route_table_id",
                  ref \o ".default_dhcp_options_id"}

\* C17: no resource refers to a parent that is omitted from the export, even
\* though a parent may be marked omitted at any point before rendering.
C17_NoReferenceToOmittedParent ==
    \A i \in DOMAIN res :
        (res[i].parent # 0 /\ RefersToParent(i)) => ~res[res[i].parent].omitFromExport

\* What the hooks do establish: when a hook returns, no resource of its list
\* that it made refer to its parent has a parent omitted at that moment.
C17_AtHookTime ==
    [][(ProcessLoadBalancerBackends \/ ProcessDefaultSecurityLists
           \/ ProcessDefaultRouteTables \/ ProcessDefaultDhcpOptions)
        => \A i \in Range(call'.list) :
              (call'.err = "nil" /\ ~RefersToParent(i) /\ RefersToParent(i)')
                  => ~res'[res'[i].parent].omitFromExport
      ]_vars_all

\* the first source_details entry of the instance, a map
FirstSourceDetails(r) == r.sourceAttributes["source_details"].l[1].m

\* the first source_details entry of the instance has a boot_volume_size_in_gbs
HasBootVolumeSize(r) ==
    /\ NonEmptyList(r, "source_details")
    /\ r.sourceAttributes["source_details"].l[1].t = "map"
    /\ "boot_volume_size_in_gbs" \in DOMAIN FirstSourceDetails(r)

\* C18: for an instance without the instance pool tag whose first
\* source_details entry has a string boot_volume_size_in_gbs: if the string
\* parses as the integer n, a successful processInstances keeps the instance
\* and has removed the attribute exactly if n < 50, leaving it as it was
\* otherwise; if the string does not parse, processInstances does not
\* succeed, and returns an error unless an unchecked type assertion on
\* another instance's size stopped it first.
C18_BootVolumeSizeThreshold ==
    [][ProcessInstances =>
          \A i \in Range(call'.list) :
              (/\ ~PoolTagged(res[i]) /\ HasBootVolumeSize(res[i])
               /\ FirstSourceDetails(res[i])["boot_volume_size_in_gbs"].t = "string") =>
                  LET size == FirstSourceDetails(res[i])["boot_volume_size_in_gbs"]
                      p == ParseInt(size.v)
                  IN  IF p.ok
                      THEN call'.err = "nil" =>
                              /\ \E k \in DOMAIN call'.results : call'.results[k] = i
                              /\ ~HasBootVolumeSize(res'[i]) <=> p.n < 50
                              /\ HasBootVolumeSize(res'[i]) =>
                                    FirstSourceDetails(res'[i])["boot_volume_size_in_gbs"] = size
                      ELSE \/ call'.err = "error"
                           \/ /\ call'.err = "panic"
                              /\ \E j \in Range(call'.list) :
                                    /\ HasBootVolumeSize(res[j])
                                    /\ FirstSourceDetails(res[j])["boot_volume_size_in_gbs"].t
                                           # "string"
       ]_vars_all

\* C18's case: of two instances retained, one had the size "49", which was
\* removed, and the other the size "50", which was kept.
C18_Witness ==
    /\ call.fn = "processInstances" /\ call.err = "nil" /\ Len(call.results) = 2
    /\ \E i, j \in Range(call.results) :
          /\ NonEmptyList(res[i], "source_details") /\ ~HasBootVolumeSize(res[i])
          /\ "source_id" \in DOMAIN FirstSourceDetails(res[i])
          /\ HasBootVolumeSize(res[j])
          /\ FirstSourceDetails(res[j])["boot_volume_size_in_gbs"] = [t |-> "string", v |-> "50"]

\* the DB system lists a first db_home entry with an id
HasPrimaryDbHome(parent) ==
    /\ NonEmptyList(parent, "db_home")
    /\ parent.sourceAttributes["db_home"].l[1].t = "map"
    /\ "id" \in DOMAIN parent.sourceAttributes["db_home"].l[1].m

\* the DB home's id is the id of the first db_home entry of its DB system
IsPrimaryDbHome(r) ==
    /\ HasPrimaryDbHome(res[r.parent])
    /\ res[r.parent].sourceAttributes["db_home"].l[1].m["id"] = [t |-> "string", v |-> r.id]

\* C19: filterPrimaryDbHomes returns, in input order, exactly the DB homes
\* whose id is not the primary DB home id of their DB system; a DB home
\* whose DB system lists no db_home entry is returned.
C19_NonPrimaryDbHomesReturned ==
    (call.fn = "filterPrimaryDbHomes" /\ call.err = "nil") =>
        call.results = SelectSeq(call.list, LAMBDA i : ~IsPrimaryDbHome(res[i]))

\* What the filter does return: the DB homes whose DB system lists a first
\* db_home entry with an id other than theirs.
C19_WithPrimaryListed ==
    (call.fn = "filterPrimaryDbHomes" /\ call.err = "nil") =>
        call.results = SelectSeq(call.list, LAMBDA i :
                           HasPrimaryDbHome(res[res[i].parent]) /\ ~IsPrimaryDbHome(res[i]))

====
